---------------------------- MODULE Spec2Model ----------------------------
(***************************************************************************)
(* codex-rotate (packages/codex-rotate/index.ts): a pool of OAuth          *)
(* credential sets with one active slot, mirrored into the live            *)
(* credential file ~/.codex/auth.json of the host application.             *)
(*                                                                         *)
(* A file on disk is a sequence of length 0 (absent) or 1 (its content).   *)
(* Indices are 0-based as in the source; accounts[i] of the source is      *)
(* accounts[i + 1] here.                                                   *)
(***************************************************************************)
EXTENDS Integers, Sequences, FiniteSets, TLC

\* The number of renewed credentials in one behaviour: credentials the
\* host application issues (by a login or a token refresh) for an account
\* that had one before.
MaxRenewals == 1

\* The labels a user passes on the command line; "" is args[0] ?? ''.
Labels == {"personal", "work", "spare"}
NoLabel == ""

\* ChatGPT account identifiers (tokens.account_id).
Accounts == {"acct-A", "acct-B", "acct-C"}

\* The codex-rotate processes followed read by read and write by write:
\* two invocations, which can overlap.
Procs == {"pid1", "pid2"}

\* The window of consecutive rotations remembered: one per pool slot.
RunLen == Cardinality(Labels)

VARIABLES
    poolFile,   \* POOL_FILE: <<>> or <<[active_index, accounts]>>
    codexAuth,  \* CODEX_AUTH: <<>> or <<credential>>
    issued,     \* per account, the generation of the newest credential issued
    observe,    \* what the history variables record: "ops", "runs", "removes"
    lastOp,     \* the last step taken: command, argument, outcome
    run,        \* what the last consecutive successful rotations started
                \* from; under "removes", what the last step removed
    inflight    \* per process followed step by step: where it is in the
                \* code and what it holds in memory

vars == <<poolFile, codexAuth, issued, observe, lastOp, run, inflight>>

---------------------------------------------------------------------------
(* Credentials and the identity token                                      *)

\* The id_token the identity provider puts in the credential of account a
\* at generation g, a string: a well-formed token whose plan changes with a
\* renewal, a token without an email claim, and a token that is not a JWT.
IdToken(a, g) ==
    CASE a = "acct-A" -> IF g = 1 THEN "h.a-free.s" ELSE "h.a-plus.s"
      [] a = "acct-B" -> "h.team.s"
      [] OTHER -> "opaque"

\* jwt.split("."): the segments of each token above.
Split(jwt) ==
    CASE jwt = "h.a-free.s" -> << "h", "a-free", "s" >>
      [] jwt = "h.a-plus.s" -> << "h", "a-plus", "s" >>
      [] jwt = "h.team.s" -> << "h", "team", "s" >>
      [] OTHER -> << jwt >>

\* Buffer.from(payload, "base64") and JSON.parse: the document a segment
\* decodes to, with email and the nested chatgpt_plan_type each present
\* (<<v>>) or missing (<<>>); <<>> for a segment that does not parse.
ParsePayload(segment) ==
    CASE segment = "a-free" -> << [email |-> <<"a@x.com">>, plan |-> <<"free">>] >>
      [] segment = "a-plus" -> << [email |-> <<"a@x.com">>, plan |-> <<"plus">>] >>
      [] segment = "team" -> << [email |-> <<>>, plan |-> <<"team">>] >>
      [] OTHER -> <<>>

\* A CodexAuth document: generation g stands for the access token, the
\* refresh token and last_refresh, which the host renews together.
Cred(a, g) ==
    [ tokens |-> [ id_token |-> IdToken(a, g),
                   access_token |-> g,
                   account_id |-> a ],
      last_refresh |-> g ]

\* decodeJwtPayload: <<doc>> on success, <<>> where the source throws.
decodeJwtPayload(jwt) ==
    LET parts == Split(jwt) IN
    IF Len(parts) # 3 THEN <<>>
    ELSE ParsePayload(parts[2])

extractEmailFromAuth(auth) ==
    LET p == decodeJwtPayload(auth.tokens.id_token) IN
    IF p = <<>> THEN "unknown"
    ELSE IF p[1].email = <<>> THEN "unknown"
    ELSE p[1].email[1]

extractPlanFromAuth(auth) ==
    LET p == decodeJwtPayload(auth.tokens.id_token) IN
    IF p = <<>> THEN "unknown"
    ELSE IF p[1].plan = <<>> THEN "unknown"
    ELSE p[1].plan[1]

---------------------------------------------------------------------------
(* Pool I/O                                                                *)

EmptyPool == [active_index |-> 0, accounts |-> <<>>]

existsSync(file) == Len(file) = 1

loadPool == IF ~ existsSync(poolFile) THEN EmptyPool ELSE poolFile[1]

\* Mutant of savePool: the entries of the file whose label the pool in
\* memory does not have are kept.
savePoolMerge(pool) ==
    LET RECURSIVE Kept(_)
        Kept(n) ==
            IF n = 0 THEN <<>>
            ELSE IF \E i \in 1..Len(pool.accounts) :
                       pool.accounts[i].label = loadPool.accounts[n].label
                 THEN Kept(n - 1)
                 ELSE Append(Kept(n - 1), loadPool.accounts[n])
    IN poolFile' = << [pool EXCEPT !.accounts =
                         @ \o Kept(Len(loadPool.accounts))] >>

savePool(pool) == poolFile' = << pool >>

loadCodexAuth == codexAuth[1]

\* Mutant of writeCodexAuth: the live file is not written.
writeCodexAuthNoop(auth) == UNCHANGED codexAuth

writeCodexAuth(auth) == codexAuth' = << auth >>

\* Mutant of FindLabel: no label is ever found.
FindLabelNever(accounts, label) == -1

\* Array.prototype.findIndex over the labels: the first match, or -1.
FindLabel(accounts, label) ==
    LET hits == { i \in 1..Len(accounts) : accounts[i].label = label } IN
    IF hits = {} THEN -1
    ELSE (CHOOSE i \in hits : \A j \in hits : i <= j) - 1

\* Array.prototype.find over the embedded account identifier, as an index.
FindAccount(accounts, account_id) ==
    LET hits == { i \in 1..Len(accounts) :
                    accounts[i].auth.tokens.account_id = account_id } IN
    IF hits = {} THEN -1
    ELSE (CHOOSE i \in hits : \A j \in hits : i <= j) - 1

\* Mutant of Splice: the last entry is taken away, whatever idx.
SpliceLast(accounts, idx) == SubSeq(accounts, 1, Len(accounts) - 1)

\* accounts.splice(idx, 1)
Splice(accounts, idx) ==
    [ i \in 1..(Len(accounts) - 1) |->
        IF i <= idx THEN accounts[i] ELSE accounts[i + 1] ]

Op(cmd, label, ok, err) == [cmd |-> cmd, label |-> label, ok |-> ok, err |-> err]

\* What a successful remove is remembered by: the label, its 0-based
\* position and active_index in the pool the command loaded.
Removal(op) ==
    IF op.cmd = "remove" /\ op.ok
    THEN << [ cmd |-> "remove",
              label |-> op.label,
              idx |-> FindLabel(loadPool.accounts, op.label),
              active_index |-> loadPool.active_index ] >>
    ELSE <<>>

\* A process that is not running yet.
Idle ==
    [ pc |-> "idle", killed |-> FALSE, cmd |-> "none", label |-> NoLabel,
      pool |-> <<>>, auth |-> <<>> ]

\* The history variables after a step: lastOp under "ops", run under "runs"
\* and, for the removals, under "removes".  The step is one whole
\* invocation, or one of the host: no process followed step by step moves.
History(op, rotations) ==
    /\ lastOp' = IF observe = "ops" THEN op ELSE lastOp
    /\ run' = IF observe = "runs" THEN rotations
              ELSE IF observe = "removes" THEN Removal(op)
              ELSE run
    /\ UNCHANGED <<observe, inflight>>

\* process.exit(1) through die(): nothing is written.
Die(cmd, err) ==
    /\ History(Op(cmd, NoLabel, FALSE, err), <<>>)
    /\ UNCHANGED <<poolFile, codexAuth, issued>>

\* pool.accounts[pool.active_index]: <<entry>>, or <<>> for undefined.
ActiveAccount(pool) ==
    IF 0 <= pool.active_index /\ pool.active_index < Len(pool.accounts)
    THEN << pool.accounts[pool.active_index + 1] >>
    ELSE <<>>

\* The credential stored in the active entry, <<>> if there is none.
ActiveAuth(pool) ==
    IF ActiveAccount(pool) = <<>> THEN <<>>
    ELSE << ActiveAccount(pool)[1].auth >>

\* What the rotations are remembered by: each record is what the command
\* found when it started.  The last two consecutive successful rotations
\* are kept, and up to RunLen of them while they all go the same way.
Remember(cmd, pool) ==
    LET rec == [ cmd |-> cmd,
                 active_index |-> pool.active_index,
                 active_auth |-> ActiveAuth(pool),
                 auth |-> codexAuth ]
        all == Append(run, rec) IN
    IF \E i \in 1..Len(run) : run[i].cmd # cmd
    THEN SubSeq(all, Len(all) - 1, Len(all))
    ELSE IF Len(all) <= RunLen THEN all
    ELSE SubSeq(all, 2, Len(all))

---------------------------------------------------------------------------
(* The host application (Codex CLI) and the user acting on the live file   *)

Renewals ==
    LET RECURSIVE Sum(_)
        Sum(S) == IF S = {} THEN 0
                  ELSE LET a == CHOOSE x \in S : TRUE IN
                       (IF issued[a] > 1 THEN issued[a] - 1 ELSE 0) + Sum(S \ {a})
    IN Sum(Accounts)

CanIssue(a) == issued[a] = 0 \/ Renewals < MaxRenewals

\* "codex auth login": the live file now holds a fresh credential of a.
HostLogin(a) ==
    /\ CanIssue(a)
    /\ issued' = [issued EXCEPT ![a] = @ + 1]
    /\ codexAuth' = << Cred(a, issued[a] + 1) >>
    /\ History(Op("login", NoLabel, TRUE, "none"), <<>>)
    /\ UNCHANGED poolFile

\* A token refresh by the host: a newer credential of the same account.
HostRefresh ==
    /\ existsSync(codexAuth)
    /\ CanIssue(codexAuth[1].tokens.account_id)
    /\ LET a == codexAuth[1].tokens.account_id IN
        /\ issued' = [issued EXCEPT ![a] = @ + 1]
        /\ codexAuth' = << Cred(a, issued[a] + 1) >>
    /\ History(Op("refresh", NoLabel, TRUE, "none"), <<>>)
    /\ UNCHANGED poolFile

\* The live file is removed (a logout).
HostLogout ==
    /\ existsSync(codexAuth)
    /\ codexAuth' = <<>>
    /\ History(Op("logout", NoLabel, TRUE, "none"), <<>>)
    /\ UNCHANGED <<poolFile, issued>>

---------------------------------------------------------------------------
(* Commands                                                                *)

\* The entry cmdAdd builds.  added_at (the wall clock at the add) is left
\* out: no command reads it.
NewEntry(label, auth) ==
    [ label |-> label,
      email |-> extractEmailFromAuth(auth),
      account_id |-> auth.tokens.account_id,
      plan_type |-> extractPlanFromAuth(auth),
      auth |-> auth ]

\* Mutant of AddUpdateLabel: the cached account_id is not rewritten.
AddUpdateLabelStaleId(pool, existing, auth) ==
    [ active_index |-> existing,
      accounts |-> [pool.accounts EXCEPT ![existing + 1] =
                      [@ EXCEPT !.auth = auth,
                                !.email = extractEmailFromAuth(auth),
                                !.plan_type = extractPlanFromAuth(auth)]] ]

\* Mutant of AddUpdateLabel: the entry is updated, active_index is not set.
AddUpdateLabelKeepActive(pool, existing, auth) ==
    [ active_index |-> pool.active_index,
      accounts |-> [pool.accounts EXCEPT ![existing + 1] =
                      [@ EXCEPT !.auth = auth,
                                !.email = extractEmailFromAuth(auth),
                                !.plan_type = extractPlanFromAuth(auth),
                                !.account_id = auth.tokens.account_id]] ]

\* cmdAdd case 1: the entry at 0-based index existing is updated in place
\* and becomes the active one.
AddUpdateLabel(pool, existing, auth) ==
    [ active_index |-> existing,
      accounts |-> [pool.accounts EXCEPT ![existing + 1] =
                      [@ EXCEPT !.auth = auth,
                                !.email = extractEmailFromAuth(auth),
                                !.plan_type = extractPlanFromAuth(auth),
                                !.account_id = auth.tokens.account_id]] ]

\* Mutant of AddUpdateAccount: the updated entry also becomes the active one.
AddUpdateAccountSetsActive(pool, dup, auth) ==
    [ active_index |-> dup,
      accounts |-> [pool.accounts EXCEPT ![dup + 1] =
                      [@ EXCEPT !.auth = auth,
                                !.email = extractEmailFromAuth(auth),
                                !.plan_type = extractPlanFromAuth(auth)]] ]

\* cmdAdd case 2: the entry of the same account gets the tokens;
\* active_index is not assigned.
AddUpdateAccount(pool, dup, auth) ==
    [ active_index |-> pool.active_index,
      accounts |-> [pool.accounts EXCEPT ![dup + 1] =
                      [@ EXCEPT !.auth = auth,
                                !.email = extractEmailFromAuth(auth),
                                !.plan_type = extractPlanFromAuth(auth)]] ]

\* Mutant of AddAppend: the new entry is put in front.
AddPrepend(pool, label, auth) ==
    [ active_index |-> 0,
      accounts |-> << NewEntry(label, auth) >> \o pool.accounts ]

\* cmdAdd case 3: push, and the new entry becomes the active one.
AddAppend(pool, label, auth) ==
    [ active_index |-> Len(pool.accounts),
      accounts |-> Append(pool.accounts, NewEntry(label, auth)) ]

\* Mutant of AddPool: no duplicate check, every add appends.
AddPoolAlwaysAppend(pool, label, auth) == AddAppend(pool, label, auth)

\* The pool cmdAdd saves.
AddPool(pool, label, auth) ==
    LET existing == FindLabel(pool.accounts, label)
        dupAcct  == FindAccount(pool.accounts, auth.tokens.account_id) IN
    IF existing # -1 THEN AddUpdateLabel(pool, existing, auth)
    ELSE IF dupAcct # -1 THEN AddUpdateAccount(pool, dupAcct, auth)
    ELSE AddAppend(pool, label, auth)

cmdAdd(label) ==
    IF label = NoLabel THEN Die("add", "usage")
    ELSE IF ~ existsSync(codexAuth) THEN Die("add", "noauth")
    ELSE /\ savePool(AddPool(loadPool, label, loadCodexAuth))
         /\ History(Op("add", label, TRUE, "none"), <<>>)
         /\ UNCHANGED <<codexAuth, issued>>

\* Mutant of Reconcile: the live credential is never saved back.
ReconcileNever(pool) == pool

\* Mutant of Reconcile: the live credential is saved back whatever its account.
ReconcileAlways(pool) ==
    IF existsSync(codexAuth) /\ ActiveAccount(pool) # <<>>
    THEN [pool EXCEPT !.accounts[pool.active_index + 1].auth = loadCodexAuth]
    ELSE pool

\* "Save current auth back into the active slot".
Reconcile(pool) ==
    IF /\ existsSync(codexAuth)
       /\ ActiveAccount(pool) # <<>>
       /\ ActiveAccount(pool)[1].auth.tokens.account_id
            = loadCodexAuth.tokens.account_id
    THEN [pool EXCEPT !.accounts[pool.active_index + 1].auth = loadCodexAuth]
    ELSE pool

\* Mutant of NextIndex: the index stops at the last entry instead of wrapping.
NextIndexClamp(pool) ==
    IF pool.active_index + 1 >= Len(pool.accounts)
    THEN pool.active_index
    ELSE pool.active_index + 1

NextIndex(pool) == (pool.active_index + 1) % Len(pool.accounts)

\* Mutant of PrevIndex: prev moves forward like next.
PrevIndexForward(pool) == (pool.active_index + 1) % Len(pool.accounts)

PrevIndex(pool) ==
    (pool.active_index - 1 + Len(pool.accounts)) % Len(pool.accounts)

\* Mutant of cmdNext: a pool of one account is rotated onto itself.
cmdNextNoSingleCheck ==
    LET pool == loadPool IN
    IF Len(pool.accounts) = 0 THEN Die("next", "empty")
    ELSE LET saved == Reconcile(pool)
             rotated == [saved EXCEPT !.active_index = NextIndex(saved)] IN
         /\ writeCodexAuth(rotated.accounts[rotated.active_index + 1].auth)
         /\ savePool(rotated)
         /\ History(Op("next", NoLabel, TRUE, "none"), Remember("next", pool))
         /\ UNCHANGED issued

cmdNext ==
    LET pool == loadPool IN
    IF Len(pool.accounts) = 0 THEN Die("next", "empty")
    ELSE IF Len(pool.accounts) = 1 THEN Die("next", "single")
    ELSE LET saved == Reconcile(pool)
             rotated == [saved EXCEPT !.active_index = NextIndex(saved)] IN
         /\ writeCodexAuth(rotated.accounts[rotated.active_index + 1].auth)
         /\ savePool(rotated)
         /\ History(Op("next", NoLabel, TRUE, "none"), Remember("next", pool))
         /\ UNCHANGED issued

cmdPrev ==
    LET pool == loadPool IN
    IF Len(pool.accounts) = 0 THEN Die("prev", "empty")
    ELSE IF Len(pool.accounts) = 1 THEN Die("prev", "single")
    ELSE LET saved == Reconcile(pool)
             rotated == [saved EXCEPT !.active_index = PrevIndex(saved)] IN
         /\ writeCodexAuth(rotated.accounts[rotated.active_index + 1].auth)
         /\ savePool(rotated)
         /\ History(Op("prev", NoLabel, TRUE, "none"), Remember("prev", pool))
         /\ UNCHANGED issued

\* The lines cmdList prints: the marker and the label of each entry.
ListLines(pool) ==
    [ i \in 1..Len(pool.accounts) |->
        [ isActive |-> (i - 1 = pool.active_index),
          label |-> pool.accounts[i].label ] ]

cmdList ==
    /\ History(Op("list", NoLabel, TRUE, "none"), <<>>)
    /\ UNCHANGED <<poolFile, codexAuth, issued>>

cmdStatus ==
    /\ History(Op("status", NoLabel, TRUE, "none"), <<>>)
    /\ UNCHANGED <<poolFile, codexAuth, issued>>

\* Mutant of AdjustActive: active_index is left as it was.
AdjustActiveNever(pool) == pool

\* "Adjust active_index" after the splice.
AdjustActive(pool) ==
    IF Len(pool.accounts) = 0 \/ pool.active_index >= Len(pool.accounts)
    THEN [pool EXCEPT !.active_index = 0]
    ELSE pool

\* The pool cmdRemove saves for a label found at 0-based index idx.
RemovePool(pool, idx) ==
    AdjustActive([pool EXCEPT !.accounts = Splice(pool.accounts, idx)])

\* Mutant of cmdRemove: no not-found check, so splice(-1, 1) takes the last
\* entry away.
cmdRemoveUnchecked(label) ==
    LET pool == loadPool
        idx  == FindLabel(pool.accounts, label)
        at   == IF idx = -1 THEN Len(pool.accounts) - 1 ELSE idx IN
    IF label = NoLabel THEN Die("remove", "usage")
    ELSE /\ savePool(RemovePool(pool, at))
         /\ History(Op("remove", label, TRUE, "none"), <<>>)
         /\ UNCHANGED <<codexAuth, issued>>

\* Mutant of cmdRemove: the credential of the entry that is active after
\* the removal is written to the live file.
cmdRemoveWritesLive(label) ==
    LET pool == loadPool
        idx  == FindLabel(pool.accounts, label) IN
    IF label = NoLabel THEN Die("remove", "usage")
    ELSE IF idx = -1 THEN Die("remove", "notfound")
    ELSE /\ savePool(RemovePool(pool, idx))
         /\ codexAuth' = ActiveAuth(RemovePool(pool, idx))
         /\ History(Op("remove", label, TRUE, "none"), <<>>)
         /\ UNCHANGED issued

cmdRemove(label) ==
    LET pool == loadPool
        idx  == FindLabel(pool.accounts, label) IN
    IF label = NoLabel THEN Die("remove", "usage")
    ELSE IF idx = -1 THEN Die("remove", "notfound")
    ELSE /\ savePool(RemovePool(pool, idx))
         /\ History(Op("remove", label, TRUE, "none"), <<>>)
         /\ UNCHANGED <<codexAuth, issued>>

---------------------------------------------------------------------------

Init ==
    /\ poolFile = <<>>
    /\ codexAuth = <<>>
    /\ issued = [a \in Accounts |-> 0]
    /\ observe = "ops"
    /\ lastOp = Op("init", NoLabel, TRUE, "none")
    /\ run = <<>>
    /\ inflight = [pid \in Procs |-> Idle]

\* The same program, with the rotations recorded instead of the last step.
InitRun ==
    /\ poolFile = <<>>
    /\ codexAuth = <<>>
    /\ issued = [a \in Accounts |-> 0]
    /\ observe = "runs"
    /\ lastOp = Op("init", NoLabel, TRUE, "none")
    /\ run = <<>>
    /\ inflight = [pid \in Procs |-> Idle]

\* The same program, with the last removal recorded.
InitRemove ==
    /\ poolFile = <<>>
    /\ codexAuth = <<>>
    /\ issued = [a \in Accounts |-> 0]
    /\ observe = "removes"
    /\ lastOp = Op("init", NoLabel, TRUE, "none")
    /\ run = <<>>
    /\ inflight = [pid \in Procs |-> Idle]

Next ==
    \/ \E a \in Accounts : HostLogin(a)
    \/ HostRefresh
    \/ HostLogout
    \/ \E label \in Labels \cup {NoLabel} : cmdAdd(label)
    \/ cmdNext
    \/ cmdPrev
    \/ cmdList
    \/ cmdStatus
    \/ \E label \in Labels \cup {NoLabel} : cmdRemove(label)

Spec == Init /\ [][Next]_vars

SpecRun == InitRun /\ [][Next]_vars

SpecRemove == InitRemove /\ [][Next]_vars

---------------------------------------------------------------------------
(* Overlapping and interrupted invocations.  No lock is taken and each     *)
(* readFileSync and writeFileSync is a step of its own, so another         *)
(* invocation, the host application or a signal can come in between.  An   *)
(* invocation that would die (no label, no live file, too few accounts,    *)
(* label not found) writes nothing and is not followed.                    *)

\* The process is not running yet.
CanStart(pid) ==
    /\ observe = "steps"
    /\ inflight[pid] = Idle

\* The process pid is alive, runs one of cmds and is at pc.
Running(pid, cmds, pc) ==
    /\ ~ inflight[pid].killed
    /\ inflight[pid].cmd \in cmds
    /\ inflight[pid].pc = pc

\* cmdAdd up to loadCodexAuth(): the live credential is in memory.
AddLoadAuth(pid, label) ==
    /\ CanStart(pid)
    /\ existsSync(codexAuth)
    /\ inflight' = [inflight EXCEPT ![pid] =
                      [Idle EXCEPT !.pc = "loadPool", !.cmd = "add",
                                   !.label = label, !.auth = codexAuth]]
    /\ UNCHANGED <<poolFile, codexAuth, issued, observe, lastOp, run>>

\* cmdAdd from loadPool() to the last assignment before savePool(pool).
AddLoadPool(pid) ==
    /\ Running(pid, {"add"}, "loadPool")
    /\ inflight' = [inflight EXCEPT
                      ![pid].pc = "savePool",
                      ![pid].pool = << AddPool(loadPool, inflight[pid].label,
                                              inflight[pid].auth[1]) >>]
    /\ UNCHANGED <<poolFile, codexAuth, issued, observe, lastOp, run>>

\* cmdNext (cmd = "next") and cmdPrev (cmd = "prev") up to the two checks
\* of pool.accounts.length.
RotateLoadPool(pid, cmd) ==
    /\ CanStart(pid)
    /\ Len(loadPool.accounts) >= 2
    /\ inflight' = [inflight EXCEPT ![pid] =
                      [Idle EXCEPT !.pc = "loadAuth", !.cmd = cmd,
                                   !.pool = << loadPool >>]]
    /\ UNCHANGED <<poolFile, codexAuth, issued, observe, lastOp, run>>

\* cmdNext and cmdPrev from existsSync(CODEX_AUTH) to the assignment of
\* pool.active_index.
RotateLoadAuth(pid) ==
    /\ Running(pid, {"next", "prev"}, "loadAuth")
    /\ LET saved == Reconcile(inflight[pid].pool[1])
           index == IF inflight[pid].cmd = "next" THEN NextIndex(saved)
                    ELSE PrevIndex(saved) IN
       inflight' = [inflight EXCEPT
                      ![pid].pc = "writeAuth",
                      ![pid].pool = << [saved EXCEPT !.active_index = index] >>]
    /\ UNCHANGED <<poolFile, codexAuth, issued, observe, lastOp, run>>

\* Mutant of RotateWriteAuth: the pool is saved in the same step.
RotateWriteAuthAndSave(pid) ==
    /\ Running(pid, {"next", "prev"}, "writeAuth")
    /\ writeCodexAuth(ActiveAuth(inflight[pid].pool[1])[1])
    /\ savePool(inflight[pid].pool[1])
    /\ inflight' = [inflight EXCEPT ![pid].pc = "savePool"]
    /\ UNCHANGED <<issued, observe, lastOp, run>>

\* writeCodexAuth(next.auth), writeCodexAuth(prev.auth)
RotateWriteAuth(pid) ==
    /\ Running(pid, {"next", "prev"}, "writeAuth")
    /\ writeCodexAuth(ActiveAuth(inflight[pid].pool[1])[1])
    /\ inflight' = [inflight EXCEPT ![pid].pc = "savePool"]
    /\ UNCHANGED <<poolFile, issued, observe, lastOp, run>>

\* cmdRemove up to the adjustment of pool.active_index.
RemoveLoadPool(pid, label) ==
    /\ CanStart(pid)
    /\ FindLabel(loadPool.accounts, label) # -1
    /\ inflight' = [inflight EXCEPT ![pid] =
                      [Idle EXCEPT
                         !.pc = "savePool", !.cmd = "remove", !.label = label,
                         !.pool = << RemovePool(loadPool,
                                       FindLabel(loadPool.accounts, label)) >>]]
    /\ UNCHANGED <<poolFile, codexAuth, issued, observe, lastOp, run>>

\* savePool(pool), the last write of cmdAdd, cmdNext, cmdPrev and
\* cmdRemove: the pool in memory replaces the file, and the process ends.
SavePool(pid) ==
    /\ Running(pid, {"add", "next", "prev", "remove"}, "savePool")
    /\ savePool(inflight[pid].pool[1])
    /\ inflight' = [inflight EXCEPT ![pid].pc = "done", ![pid].auth = <<>>]
    /\ UNCHANGED <<codexAuth, issued, observe, lastOp, run>>

\* The process is killed (a signal, the terminal closed, power lost) where
\* it is: no handler runs and nothing is undone.
Interrupt(pid) ==
    /\ ~ inflight[pid].killed
    /\ inflight[pid].pc \notin {"idle", "done"}
    /\ inflight' = [inflight EXCEPT ![pid].killed = TRUE]
    /\ UNCHANGED <<poolFile, codexAuth, issued, observe, lastOp, run>>

\* The pool after login of acct-A, add personal, login of acct-B, add
\* work: two accounts, the second one active and in the live file.
PoolOfTwo ==
    [ active_index |-> 1,
      accounts |-> << NewEntry("personal", Cred("acct-A", 1)),
                      NewEntry("work", Cred("acct-B", 1)) >> ]

\* The processes run on no pool at all, or on the pool of two.
InitSteps ==
    /\ \/ /\ poolFile = <<>>
          /\ codexAuth = <<>>
          /\ issued = [a \in Accounts |-> 0]
       \/ /\ poolFile = << PoolOfTwo >>
          /\ codexAuth = << Cred("acct-B", 1) >>
          /\ issued = [a \in Accounts |-> IF a = "acct-C" THEN 0 ELSE 1]
    /\ observe = "steps"
    /\ lastOp = Op("init", NoLabel, TRUE, "none")
    /\ run = <<>>
    /\ inflight = [pid \in Procs |-> Idle]

NextSteps ==
    \/ \E a \in Accounts : HostLogin(a)
    \/ HostRefresh
    \/ HostLogout
    \/ \E pid \in Procs :
         \/ \E label \in Labels : AddLoadAuth(pid, label)
         \/ AddLoadPool(pid)
         \/ \E cmd \in {"next", "prev"} : RotateLoadPool(pid, cmd)
         \/ RotateLoadAuth(pid)
         \/ RotateWriteAuth(pid)
         \/ \E label \in Labels : RemoveLoadPool(pid, label)
         \/ SavePool(pid)
         \/ Interrupt(pid)

SpecSteps == InitSteps /\ [][NextSteps]_vars

---------------------------------------------------------------------------
(* Properties                                                              *)

\* The persisted pool, its size, and the last remembered rotation.
Accts == loadPool.accounts
Size == Len(loadPool.accounts)
Active == loadPool.active_index
LastRun == run[Len(run)]

\* The live file carries the account of the active entry.
Mirrored ==
    /\ existsSync(codexAuth)
    /\ ActiveAuth(loadPool) # <<>>
    /\ ActiveAuth(loadPool)[1].tokens.account_id = codexAuth[1].tokens.account_id

\* C1: whenever the persisted pool is non-empty, 0 <= active_index <
\* len(accounts); whenever it is empty, active_index is 0.
C1_ActiveIndexInRange ==
    IF Size > 0 THEN 0 <= Active /\ Active < Size ELSE Active = 0

\* A remove from a three-account pool that left the last slot active.
C1_Witness ==
    /\ lastOp = Op("remove", lastOp.label, TRUE, "none")
    /\ Size = 2
    /\ Active = 1

\* C2 (as claimed): a command (add, next, prev, remove) started where the
\* pool is empty or the live file carries the active entry's account ends
\* where the pool is empty or the live file carries the active entry's
\* account.
C2_ActiveMirrorsLive ==
    [][ ( /\ Size > 0 => Mirrored
          /\ lastOp'.cmd \in {"add", "next", "prev", "remove"} )
        => (Size > 0 => Mirrored)' ]_vars

\* The last two remembered rotations went opposite ways: next then prev,
\* or prev then next, with nothing in between.
RoundTrip ==
    /\ Len(run) >= 2
    /\ run[Len(run) - 1].cmd # LastRun.cmd

\* What the round trip started from.
TripStart == run[Len(run) - 1]

\* C3 (as claimed): from any starting state with at least two accounts,
\* next then prev (or prev then next) restores the original active_index
\* and the original content of the live credential file.
C3_RoundTripAnyState ==
    RoundTrip =>
        /\ Active = TripStart.active_index
        /\ codexAuth = TripStart.auth

\* C3 (amended): the same, from the starting states in which the live file
\* exists and carries the account identifier of the active entry.
C3_RoundTripWhenMirrored ==
    ( /\ RoundTrip
      /\ TripStart.auth # <<>>
      /\ TripStart.active_auth # <<>>
      /\ TripStart.auth[1].tokens.account_id
           = TripStart.active_auth[1].tokens.account_id )
    => /\ Active = TripStart.active_index
       /\ codexAuth = TripStart.auth

\* A next-then-prev round trip that started with a live credential newer
\* than the stored one.
C3_Witness ==
    /\ RoundTrip
    /\ TripStart.cmd = "next"
    /\ TripStart.auth # <<>>
    /\ TripStart.active_auth # <<>>
    /\ TripStart.auth # TripStart.active_auth
    /\ TripStart.auth[1].tokens.account_id
         = TripStart.active_auth[1].tokens.account_id

\* The last n remembered rotations were all cmd.
SameWay(n, cmd) ==
    /\ Len(run) >= n
    /\ \A i \in (Len(run) - n + 1)..Len(run) : run[i].cmd = cmd

\* C4: in a pool of N >= 2 accounts, N times next, and N times prev, bring
\* active_index back to where it started; next from the last index goes to
\* 0 and prev from index 0 goes to N - 1.
C4_RotationCycles ==
    /\ \A cmd \in {"next", "prev"} :
         (Size >= 2 /\ SameWay(Size, cmd))
            => Active = run[Len(run) - Size + 1].active_index
    /\ (Len(run) >= 1 /\ LastRun.cmd = "next" /\ LastRun.active_index = Size - 1)
            => Active = 0
    /\ (Len(run) >= 1 /\ LastRun.cmd = "prev" /\ LastRun.active_index = 0)
            => Active = Size - 1

\* Three times prev in a pool of three, the last one wrapping from index 0.
C4_Witness ==
    /\ Size = 3
    /\ SameWay(3, "prev")
    /\ LastRun.active_index = 0

\* C7: after a successful next or prev the live file holds the credential
\* stored in the entry at the new active_index, which is the old one plus 1
\* (next) or minus 1 (prev) modulo the pool size.
C7_RotationWritesActive ==
    Len(run) >= 1 =>
        /\ codexAuth = ActiveAuth(loadPool)
        /\ ActiveAuth(loadPool) # <<>>
        /\ LastRun.cmd = "next" => Active = (LastRun.active_index + 1) % Size
        /\ LastRun.cmd = "prev" => Active = (LastRun.active_index - 1) % Size

\* A next that replaced the live credential by that of another account.
C7_Witness ==
    /\ Len(run) >= 1
    /\ LastRun.cmd = "next"
    /\ LastRun.auth # <<>>
    /\ LastRun.auth[1].tokens.account_id # codexAuth[1].tokens.account_id
    /\ Active = 2

\* C5: add(label) again, right after a successful add(label) and with the
\* live credential untouched, leaves the number of accounts and
\* active_index as the first call left them.
C5_AddIdempotent ==
    [][ \A label \in Labels :
          ( /\ lastOp = Op("add", label, TRUE, "none")
            /\ cmdAdd(label) )
          => /\ Len(loadPool.accounts)' = Len(loadPool.accounts)
             /\ loadPool.active_index' = loadPool.active_index
             /\ lastOp'.ok ]_vars

\* An add that made an entry other than the last one active: its label was
\* in the pool already, so is it for the second call.
C5_Witness ==
    /\ lastOp.cmd = "add"
    /\ lastOp.ok
    /\ Size = 3
    /\ FindLabel(Accts, lastOp.label) = 0
    /\ Active = 0

\* The entry with this label exists, is the active one, and is the one
\* list marks.
ShownActive(label) ==
    /\ FindLabel(Accts, label) # -1
    /\ FindLabel(Accts, label) = Active
    /\ \E i \in 1..Len(ListLines(loadPool)) :
         /\ ListLines(loadPool)[i].label = label
         /\ ListLines(loadPool)[i].isActive
    /\ \A i \in 1..Len(ListLines(loadPool)) :
         ListLines(loadPool)[i].isActive => ListLines(loadPool)[i].label = label

\* C6 (as claimed): after every successful add(label) the pool contains an
\* entry with that label, active_index points at it, and list marks it.
C6_AddedLabelIsActive ==
    (lastOp.cmd = "add" /\ lastOp.ok) => ShownActive(lastOp.label)

\* C6 (amended): after a successful add(label) that found an entry with
\* that label, or found no entry with the live credential's account
\* identifier, the pool contains an entry with that label, active_index
\* points at it, and list marks it.
C6_AddedLabelIsActiveUnlessSameAccount ==
    [][ \A label \in Labels :
          ( /\ cmdAdd(label)
            /\ existsSync(codexAuth)
            /\ \/ FindLabel(loadPool.accounts, label) # -1
               \/ FindAccount(loadPool.accounts,
                              loadCodexAuth.tokens.account_id) = -1 )
          => ShownActive(label)' ]_vars

\* An add of a label that was in the pool, not in the active slot: the
\* entry of that label took a second account's credential and is active.
C6_Witness ==
    /\ lastOp.cmd = "add"
    /\ lastOp.ok
    /\ Size = 2
    /\ ShownActive(lastOp.label)
    /\ Active = 0
    /\ Accts[1].auth.tokens.account_id = Accts[2].auth.tokens.account_id

\* C8: remove(label) with a label no entry carries fails with the
\* not-found error, and the pool file and the live file stay as they were.
C8_RemoveMissingLabel ==
    [][ \A label \in Labels :
          ( /\ cmdRemove(label)
            /\ FindLabel(loadPool.accounts, label) = -1 )
          => /\ lastOp' = Op("remove", NoLabel, FALSE, "notfound")
             /\ poolFile' = poolFile
             /\ codexAuth' = codexAuth ]_vars

\* A remove that failed with not-found on a pool of two accounts.
C8_Witness ==
    /\ lastOp = Op("remove", NoLabel, FALSE, "notfound")
    /\ Size = 2

\* The live file exists and carries the account of the active entry.
LiveIsActiveAccount(pool) ==
    /\ existsSync(codexAuth)
    /\ ActiveAuth(pool) # <<>>
    /\ ActiveAuth(pool)[1].tokens.account_id = loadCodexAuth.tokens.account_id

\* C9: a successful next or prev that finds the live file carrying the
\* account identifier of the active entry saves a pool whose previously
\* active entry stores the live credential the command found; one that
\* finds another identifier, or no live file, changes no entry's stored
\* credential.
C9_Reconciliation ==
    [][ ( /\ cmdNext \/ cmdPrev
          /\ Len(loadPool.accounts) >= 2 )
        => LET before == loadPool
               after  == poolFile'[1] IN
           /\ Len(after.accounts) = Len(before.accounts)
           /\ IF LiveIsActiveAccount(before)
              THEN after.accounts[before.active_index + 1].auth = loadCodexAuth
              ELSE \A i \in 1..Len(before.accounts) :
                     after.accounts[i].auth = before.accounts[i].auth ]_vars

\* A prev that found a live credential newer than the stored one of the
\* same account, and stored it.
C9_Witness ==
    /\ Len(run) >= 1
    /\ LastRun.cmd = "prev"
    /\ LastRun.auth # <<>>
    /\ LastRun.active_auth # <<>>
    /\ LastRun.auth # LastRun.active_auth
    /\ LastRun.auth[1].tokens.account_id
         = LastRun.active_auth[1].tokens.account_id
    /\ Accts[LastRun.active_index + 1].auth = LastRun.auth[1]

\* The newest credential issued for the account of every pool entry is in
\* the live file or in a pool entry.
NewestHeld ==
    \A i \in 1..Size :
        LET a == Accts[i].auth.tokens.account_id
            newest == Cred(a, issued[a]) IN
        \/ codexAuth = << newest >>
        \/ \E j \in 1..Size : Accts[j].auth = newest

\* C10 (as claimed): from a pool of at least two accounts whose active
\* entry is the account of the live file and in which the newest credential
\* of every pooled account is held, a host refresh, a next or a prev ends
\* with the newest credential of every pooled account held.
C10_NoRefreshLost ==
    [][ ( /\ Size >= 2
          /\ Mirrored
          /\ NewestHeld
          /\ HostRefresh \/ cmdNext \/ cmdPrev )
        => NewestHeld' ]_vars

\* C11: no two entries of the persisted pool carry the same label.
C11_LabelsUnique ==
    \A i, j \in 1..Size : i # j => Accts[i].label # Accts[j].label

\* An add of a label that the middle entry of a three-account pool carried
\* already: the entry was updated, not added again.
C11_Witness ==
    /\ lastOp.cmd = "add"
    /\ lastOp.ok
    /\ Size = 3
    /\ FindLabel(Accts, lastOp.label) = 1
    /\ Active = 1

\* C12 (as claimed): no two entries of the persisted pool have the same
\* account identifier, in the cached field or in the stored credential.
C12_AccountIdsUnique ==
    \A i, j \in 1..Size :
        i # j => /\ Accts[i].account_id # Accts[j].account_id
                 /\ Accts[i].auth.tokens.account_id
                      # Accts[j].auth.tokens.account_id

\* C13: next and prev on a pool of no account or of one account fail, and
\* the pool file and the live file stay as they were.
C13_RotationNeedsTwo ==
    [][ ( /\ cmdNext \/ cmdPrev
          /\ Len(loadPool.accounts) <= 1 )
        => /\ lastOp'.cmd \in {"next", "prev"}
           /\ ~ lastOp'.ok
           /\ lastOp'.err = IF Len(loadPool.accounts) = 0 THEN "empty"
                            ELSE "single"
           /\ poolFile' = poolFile
           /\ codexAuth' = codexAuth ]_vars

\* A prev that failed on a pool of one account while the live file held a
\* credential other than the stored one.
C13_Witness ==
    /\ lastOp = Op("prev", NoLabel, FALSE, "single")
    /\ Size = 1
    /\ existsSync(codexAuth)
    /\ codexAuth[1] # Accts[1].auth

\* C14 (as claimed): a remove of an entry at or before the active index
\* sets active_index to 0 and does not write the live file.
C14_RemoveResetsAtOrBeforeActive ==
    [][ \A label \in Labels :
          LET idx == FindLabel(loadPool.accounts, label) IN
          ( /\ cmdRemove(label)
            /\ idx # -1
            /\ idx <= loadPool.active_index )
          => /\ poolFile'[1].active_index = 0
             /\ codexAuth' = codexAuth ]_vars

\* C14 (amended): a remove of an entry at or before the active index sets
\* active_index to 0 when the active entry was the last one of the pool and
\* leaves the number active_index as it was otherwise; it does not write
\* the live file.
C14_RemoveResetsWhenActiveWasLast ==
    [][ \A label \in Labels :
          LET before == loadPool
              idx == FindLabel(before.accounts, label) IN
          ( /\ cmdRemove(label)
            /\ idx # -1
            /\ idx <= before.active_index )
          => /\ poolFile'[1].active_index =
                  IF before.active_index = Len(before.accounts) - 1 THEN 0
                  ELSE before.active_index
             /\ codexAuth' = codexAuth ]_vars

\* A remove of the first entry of a three-account pool whose second entry
\* was active and mirrored in the live file: active_index is still 1, the
\* entry there is another account's, and the live file is as it was.
C14_Witness ==
    /\ Len(run) = 1
    /\ LastRun.idx = 0
    /\ LastRun.active_index = 1
    /\ Size = 2
    /\ Active = 1
    /\ existsSync(codexAuth)
    /\ FindAccount(Accts, codexAuth[1].tokens.account_id) = 0

\* C15: a successful remove(label) takes exactly the entry of that label
\* out of the pool; active_index becomes 0 if no entry is left or if it was
\* at or beyond the new length, and keeps its number otherwise; removing
\* the only account leaves no account and active_index 0.
C15_RemoveDeletesEntry ==
    [][ \A label \in Labels :
          LET before == loadPool
              idx == FindLabel(before.accounts, label)
              after == poolFile'[1] IN
          ( /\ cmdRemove(label)
            /\ idx # -1 )
          => /\ Len(after.accounts) = Len(before.accounts) - 1
             /\ \A i \in 1..Len(after.accounts) :
                  /\ after.accounts[i].label # label
                  /\ after.accounts[i] =
                       before.accounts[IF i <= idx THEN i ELSE i + 1]
             /\ after.active_index =
                  IF \/ Len(after.accounts) = 0
                     \/ before.active_index >= Len(after.accounts)
                  THEN 0
                  ELSE before.active_index
             /\ Len(before.accounts) = 1 => after = EmptyPool ]_vars

\* The only account of a pool was removed.
C15_Witness ==
    /\ Len(run) = 1
    /\ LastRun.idx = 0
    /\ existsSync(poolFile)
    /\ Size = 0
    /\ Active = 0

\* The 1-based positions of the entries of the account of auth.
SameAccount(pool, auth) ==
    { i \in 1..Len(pool.accounts) :
        pool.accounts[i].auth.tokens.account_id = auth.tokens.account_id }

\* C16: an add(label) that finds no entry of that label and finds an entry
\* whose stored credential has the live credential's account identifier
\* replaces the credential, email and plan of one such entry and nothing
\* else: the pool size, the labels in order, the other entries and
\* active_index stay, and no entry of that label exists afterwards.
C16_AddSameAccountFrame ==
    [][ \A label \in Labels :
          LET before == loadPool
              after == poolFile'[1] IN
          ( /\ cmdAdd(label)
            /\ existsSync(codexAuth)
            /\ FindLabel(before.accounts, label) = -1
            /\ SameAccount(before, loadCodexAuth) # {} )
          => /\ Len(after.accounts) = Len(before.accounts)
             /\ after.active_index = before.active_index
             /\ FindLabel(after.accounts, label) = -1
             /\ \E k \in SameAccount(before, loadCodexAuth) :
                  /\ after.accounts[k] =
                       [ before.accounts[k] EXCEPT
                           !.auth = loadCodexAuth,
                           !.email = extractEmailFromAuth(loadCodexAuth),
                           !.plan_type = extractPlanFromAuth(loadCodexAuth) ]
                  /\ \A i \in 1..Len(before.accounts) :
                       i # k => after.accounts[i] = before.accounts[i] ]_vars

\* An add of a label that is not in the pool afterwards: the renewed
\* credential of the first entry's account was stored in the first entry,
\* with the plan of the renewed token, and the second entry stayed active.
C16_Witness ==
    /\ lastOp.cmd = "add"
    /\ lastOp.ok
    /\ FindLabel(Accts, lastOp.label) = -1
    /\ Size = 2
    /\ Active = 1
    /\ codexAuth = << Accts[1].auth >>
    /\ Accts[1].auth.last_refresh = 2
    /\ Accts[1].plan_type = "plus"

\* The labels of a pool, in rotation order.
LabelsOf(pool) == [ i \in 1..Len(pool.accounts) |-> pool.accounts[i].label ]

\* s with its k-th element taken out.
Without(s, k) == [ i \in 1..(Len(s) - 1) |-> IF i < k THEN s[i] ELSE s[i + 1] ]

\* C19: add keeps the entries where they are and at most appends one at
\* the end; next, prev, list and status keep the number of entries and
\* every label in place; remove keeps the remaining entries in their order.
C19_OrderStable ==
    [][ LET before == LabelsOf(loadPool)
            after  == LabelsOf(loadPool)' IN
        /\ (\E label \in Labels \cup {NoLabel} : cmdAdd(label))
             => /\ Len(after) \in {Len(before), Len(before) + 1}
                /\ SubSeq(after, 1, Len(before)) = before
        /\ (cmdNext \/ cmdPrev \/ cmdList \/ cmdStatus)
             => after = before
        /\ (\E label \in Labels \cup {NoLabel} : cmdRemove(label))
             => \/ after = before
                \/ \E k \in 1..Len(before) : after = Without(before, k) ]_vars

\* The middle entry of a three-account pool was removed.
C19_Witness ==
    /\ Len(run) = 1
    /\ LastRun.idx = 1
    /\ Size = 2
    /\ FindLabel(Accts, LastRun.label) = -1

\* C20: in every entry of the persisted pool the cached account_id is the
\* account identifier of the stored credential.
C20_CachedAccountId ==
    \A i \in 1..Size : Accts[i].account_id = Accts[i].auth.tokens.account_id

\* A next stored a renewed live credential in the entry that was active:
\* the credential was replaced and the cached field was not written.
C20_Witness ==
    /\ Len(run) >= 1
    /\ LastRun.cmd = "next"
    /\ LastRun.auth # <<>>
    /\ LastRun.active_auth # <<>>
    /\ LastRun.auth # LastRun.active_auth
    /\ Accts[LastRun.active_index + 1].auth = LastRun.auth[1]
    /\ Accts[LastRun.active_index + 1].account_id
         = LastRun.auth[1].tokens.account_id

\* The 0-based position of the entry of the account of the live file in the
\* persisted pool, -1 if there is none.
LiveAt ==
    IF existsSync(codexAuth)
    THEN FindAccount(Accts, codexAuth[1].tokens.account_id)
    ELSE -1

\* C17: next and prev write the live file and leave the pool file as it
\* is, in a step of its own that comes before savePool; a process killed
\* between the two leaves both files as they are at that moment.
C17_InterruptedRotation ==
    [][ \A pid \in Procs :
          /\ RotateWriteAuth(pid)
               => /\ codexAuth' = ActiveAuth(inflight[pid].pool[1])
                  /\ poolFile' = poolFile
                  /\ inflight'[pid].pc = "savePool"
          /\ ( /\ Interrupt(pid)
               /\ inflight[pid].cmd \in {"next", "prev"}
               /\ inflight[pid].pc = "savePool" )
               => /\ codexAuth' = codexAuth
                  /\ poolFile' = poolFile ]_vars

\* A next killed before savePool, with no other process started: the live
\* file holds the credential of the entry next chose, the pool file still
\* has the old active_index, an entry of another account, and the old
\* credential where next had put the renewed one in memory.
C17_Witness ==
    \E pid \in Procs :
        LET mem == inflight[pid].pool[1] IN
        /\ inflight[pid].killed
        /\ inflight[pid].cmd = "next"
        /\ inflight[pid].pc = "savePool"
        /\ \A other \in Procs \ {pid} : inflight[other] = Idle
        /\ codexAuth = ActiveAuth(mem)
        /\ Active # mem.active_index
        /\ LiveAt = mem.active_index
        /\ LiveAt # Active
        /\ Accts[Active + 1].auth # mem.accounts[Active + 1].auth
        /\ mem.accounts[Active + 1].auth.last_refresh = 2

\* C18: savePool replaces the pool file by the pool the process holds in
\* memory, computed from what it read itself; an entry that is in the file
\* at that moment under a label the pool in memory does not have is gone.
C18_LastWriterWins ==
    [][ \A pid \in Procs :
          SavePool(pid)
            => /\ poolFile' = inflight[pid].pool
               /\ \A i \in 1..Len(loadPool.accounts) :
                    FindLabel(inflight[pid].pool[1].accounts,
                              loadPool.accounts[i].label) = -1
                      => FindLabel(loadPool.accounts',
                                   loadPool.accounts[i].label) = -1 ]_vars

\* Two add with different labels, both run to the end on no pool at all:
\* the pool file is the one-entry pool of the second, and the entry the
\* first one saved is not in it.
C18_Witness ==
    /\ inflight["pid1"].cmd = "add"
    /\ inflight["pid1"].pc = "done"
    /\ inflight["pid2"].cmd = "add"
    /\ inflight["pid2"].pc = "done"
    /\ inflight["pid1"].label # inflight["pid2"].label
    /\ inflight["pid1"].pool[1].accounts[1].label = inflight["pid1"].label
    /\ poolFile = inflight["pid2"].pool
    /\ Size = 1
    /\ FindLabel(Accts, inflight["pid1"].label) = -1

===========================================================================
